---- MODULE Spec2Model ----
(***************************************************************************)
(* MCP Tool-Hub Worker (src/index.ts): the shared-secret gate, the cached  *)
(* McpServer instance, the three registered tools with their zod schemas,  *)
(* and the handlers that forward a validated call to a downstream service. *)
(*                                                                         *)
(* One invocation of the Worker's fetch() is one slot.  fetch() contains   *)
(* no await, so the gate and the get-or-build of env.__SERVER are one      *)
(* atomic step; the handlers suspend at the outbound fetch and at the read *)
(* of the downstream body, and other invocations may run in between.       *)
(*                                                                         *)
(* McpServer and zod are libraries outside the repository.  They are       *)
(* modelled by their contracts: mcp.tool(name, schema, handler) registers  *)
(* the triple, and handle() parses the arguments of a call with the        *)
(* registered schema and invokes the handler only when the parse succeeds. *)
(***************************************************************************)
EXTENDS Integers, Sequences, FiniteSets, TLC

\* Number of invocations of fetch() in one isolate (the model's bound).
MaxRequests == 2

Slots == 1..MaxRequests

(* ---------- optional values: null / undefined is the empty sequence ----- *)
None == <<>>

Some(v) == <<v>>

\* a ?? b
Coalesce(a, b) == IF a # None THEN a ELSE b

(* ---------- environment bindings ----------------------------------------- *)
HUB_TOKEN == "hub-secret"

TTS_ENDPOINT == "https://tts.example/"

TTS_TOKEN == "tts-secret"

IMAGE_ENDPOINT == "https://image.example/generate"

IMAGE_KEY == "image-key"

TRANSLATE_ENDPOINT == "https://translate.example/"

(* ---------- JSON values --------------------------------------------------- *)
\* A number is n + d/10 with n >= 0 and d a single digit, which is enough to
\* tell integers (d = 0) from non-integers.
JStr(s) == [t |-> "string", s |-> s, n |-> 0, d |-> 0, b |-> FALSE]

JNum(n, d) == [t |-> "number", s |-> "", n |-> n, d |-> d, b |-> FALSE]

JInt(n) == JNum(n, 0)

JBool(b) == [t |-> "boolean", s |-> "", n |-> 0, d |-> 0, b |-> b]

\* JSON.stringify of a scalar.  Strings of the model hold no character that
\* JSON escapes.
StringifyValue(v) ==
  CASE v.t = "string"  -> "\"" \o v.s \o "\""
    [] v.t = "number"  -> IF v.d = 0 THEN ToString(v.n)
                          ELSE ToString(v.n) \o "." \o ToString(v.d)
    [] v.t = "boolean" -> IF v.b THEN "true" ELSE "false"

RECURSIVE StringifyMembers(_)
StringifyMembers(pairs) ==
  IF pairs = <<>> THEN ""
  ELSE LET p == Head(pairs)
           m == "\"" \o p[1] \o "\":" \o StringifyValue(p[2])
       IN IF Len(pairs) = 1 THEN m ELSE m \o "," \o StringifyMembers(Tail(pairs))

\* JSON.stringify of an object given as its members in insertion order.
JSONstringify(pairs) == "{" \o StringifyMembers(pairs) \o "}"

(* ---------- helpers ------------------------------------------------------- *)
CORS_HEADERS ==
  { <<"Access-Control-Allow-Origin", "*">>,
    <<"Access-Control-Allow-Methods", "GET, POST, OPTIONS">>,
    <<"Access-Control-Allow-Headers", "Content-Type, X-Api-Token">>,
    <<"Access-Control-Max-Age", "86400">> }

\* new Response(body, { status, headers })
Response(body, status, headers) ==
  [status |-> status, headers |-> headers, body |-> body]

json(data, status) ==
  Response(Some(JSONstringify(data)), status,
           { <<"Content-Type", "application/json">> } \cup CORS_HEADERS)

(* ---------- zod ----------------------------------------------------------- *)
ZString == [t |-> "string", min |-> None, max |-> None, len |-> None,
            int |-> FALSE, def |-> None]

ZNumber == [t |-> "number", min |-> None, max |-> None, len |-> None,
            int |-> FALSE, def |-> None]

ZMin(z, n) == [z EXCEPT !.min = Some(n)]

ZMax(z, n) == [z EXCEPT !.max = Some(n)]

ZLength(z, n) == [z EXCEPT !.len = Some(n)]

ZInt(z) == [z EXCEPT !.int = TRUE]

ZDefault(z, v) == [z EXCEPT !.def = Some(v)]

\* The size zod compares: the length of a string, the value of a number.
AtLeast(v, n) == IF v.t = "string" THEN Len(v.s) >= n ELSE v.n >= n

AtMost(v, n) ==
  IF v.t = "string" THEN Len(v.s) <= n ELSE v.n < n \/ (v.n = n /\ v.d = 0)

\* One field's checks on a value that is present.
CheckValue(z, v) ==
  /\ v.t = z.t
  /\ z.int => v.d = 0
  /\ z.min # None => AtLeast(v, z.min[1])
  /\ z.max # None => AtMost(v, z.max[1])
  /\ z.len # None => Len(v.s) = z.len[1]

\* A field of the object schema: an absent key passes only with a default.
CheckField(shape, args, k) ==
  IF k \in DOMAIN args THEN CheckValue(shape[k], args[k])
  ELSE shape[k].def # None

\* z.object(shape).safeParse(args): success, and the parsed data with the
\* defaults filled in and the unknown keys stripped.
SafeParse(shape, args) ==
  [success |-> \A k \in DOMAIN shape : CheckField(shape, args, k),
   data    |-> [k \in {f \in DOMAIN shape :
                          f \in DOMAIN args \/ shape[f].def # None} |->
                  IF k \in DOMAIN args THEN args[k] ELSE shape[k].def[1]]]

(* ---------- build the MCP server (cached per isolate) --------------------- *)
\* mcp.tool(name, schema, handler): the handler is named by the service its
\* closure calls.
Tool(shape, handler) == [schema |-> shape, handler |-> handler]

\* z.object({...}) of generate_audio
generate_audio_schemaOtherDefault ==
  [text    |-> ZMax(ZMin(ZString, 1), 5000),
   voiceId |-> ZString,
   modelId |-> ZDefault(ZString, JStr("eleven_monolingual_v1"))]

generate_audio_schema ==
  [text    |-> ZMax(ZMin(ZString, 1), 5000),
   voiceId |-> ZString,
   modelId |-> ZDefault(ZString, JStr("eleven_turbo_v2"))]

\* z.object({...}) of generate_image
generate_image_schemaNoMax ==
  [prompt |-> ZMax(ZMin(ZString, 1), 800),
   steps  |-> ZDefault(ZMin(ZInt(ZNumber), 1), JInt(30))]

generate_image_schema ==
  [prompt |-> ZMax(ZMin(ZString, 1), 800),
   steps  |-> ZDefault(ZMax(ZMin(ZInt(ZNumber), 1), 100), JInt(30))]

\* z.object({...}) of translate_text
translate_text_schema ==
  [text       |-> ZMax(ZMin(ZString, 1), 10000),
   targetLang |-> ZLength(ZString, 2)]

buildServerTwoTools ==
  [name    |-> "ToolHub",
   version |-> "1.0.0",
   tools   |-> [generate_audio |-> Tool(generate_audio_schema, "tts"),
                generate_image |-> Tool(generate_image_schema, "image")]]

buildServer ==
  [name    |-> "ToolHub",
   version |-> "1.0.0",
   tools   |-> [generate_audio |-> Tool(generate_audio_schema, "tts"),
                generate_image |-> Tool(generate_image_schema, "image"),
                translate_text |-> Tool(translate_text_schema, "translate")]]

(* ---------- the handlers --------------------------------------------------- *)
\* The outbound fetch(url, init) a handler issues for validated arguments a.
\* `service` names the binding the URL is built from.
HandlerRequest(handler, a) ==
  CASE handler = "tts" ->
         [service |-> "TTS_ENDPOINT",
          url     |-> TTS_ENDPOINT \o "?token=" \o TTS_TOKEN,
          method  |-> "POST",
          headers |-> { <<"Content-Type", "application/json">> },
          body    |-> JSONstringify(<< <<"text", a.text>>,
                                       <<"voiceId", a.voiceId>>,
                                       <<"modelId", a.modelId>> >>)]
    [] handler = "image" ->
         [service |-> "IMAGE_ENDPOINT",
          url     |-> IMAGE_ENDPOINT,
          method  |-> "POST",
          headers |-> { <<"Authorization", "Bearer " \o IMAGE_KEY>>,
                        <<"Content-Type", "application/json">> },
          body    |-> JSONstringify(<< <<"prompt", a.prompt>>,
                                       <<"steps", a.steps>> >>)]
    [] handler = "translate" ->
         [service |-> "TRANSLATE_ENDPOINT",
          url     |-> TRANSLATE_ENDPOINT \o "?lang=" \o a.targetLang.s,
          method  |-> "POST",
          headers |-> {},
          body    |-> a.text.s]

\* res.ok
Ok(res) == res.status >= 200 /\ res.status <= 299

\* res.json(): the downstream bodies of the model that are JSON objects, as
\* their members; None for a body that is not JSON (res.json() rejects).
ParseJson(body) ==
  CASE body = "{\"audioUrl\":\"https://x/a.mp3\"}" ->
         Some([audioUrl |-> "https://x/a.mp3"])
    [] body = "{\"url\":\"https://x/i.png\"}" ->
         Some([url |-> "https://x/i.png"])
    [] OTHER -> None

\* obj.k, undefined when the member is missing
Get(obj, k) == IF k \in DOMAIN obj THEN Some(obj[k]) ELSE None

NoResult == [state |-> "none", content |-> <<>>, message |-> ""]

Return(content) == [state |-> "returned", content |-> content, message |-> ""]

\* throw new Error(message)
Throw(message) == [state |-> "thrown", content |-> <<>>, message |-> message]

\* The handler's path after a 2xx response.
HandlerSuccess(handler, res) ==
  CASE handler = "tts" ->
         LET j == ParseJson(res.body)
         IN IF j = None THEN Throw("SyntaxError")
            ELSE Return(<< [type |-> "text",
                            text |-> "Audio created successfully."],
                           [type |-> "audio",
                            url  |-> Get(j[1], "audioUrl"),
                            mime_type |-> "audio/mpeg"] >>)
    [] handler = "image" ->
         LET j == ParseJson(res.body)
         IN IF j = None THEN Throw("SyntaxError")
            ELSE Return(<< [type |-> "image", url |-> Get(j[1], "url")] >>)
    [] handler = "translate" ->
         Return(<< [type |-> "text", text |-> res.body] >>)

HandlerResultStatusOnly(handler, res) ==
  IF ~Ok(res) THEN Throw("Downstream request failed")
  ELSE HandlerSuccess(handler, res)

\* What the handler does with the downstream response once its body is read:
\* if (!res.ok) throw new Error(await res.text()); otherwise the content.
HandlerResult(handler, res) ==
  IF ~Ok(res) THEN Throw(res.body)
  ELSE HandlerSuccess(handler, res)

(* ---------- state ----------------------------------------------------------- *)
VARIABLES
  heap,        \* the McpServer instances constructed so far, in order
  server,      \* env.__SERVER: 0 when undefined, else an index into heap
  pc,          \* where each invocation of fetch() stands
  request,     \* the Request each invocation was given
  response,    \* the Response the Worker itself built (204, 401)
  cacheOp,     \* what the invocation did at line 130: "none", "built", "reused"
  served,      \* the instance whose handle() the invocation was delegated to
  call,        \* the tool call the transport read from the request
  out,         \* the outbound fetches issued on behalf of the invocation
  downstream,  \* the downstream Response the handler is reading
  result       \* what the dispatcher got from the tool call

vars == <<heap, server, pc, request, response, cacheOp, served, call, out,
          downstream, result>>

NoRequest == [method |-> "", query |-> None, header |-> None]

NoResponse == Response(None, 0, {})

NoCall == [name |-> "", args |-> <<>>]

NoDownstream == [status |-> 0, body |-> ""]

Init ==
  /\ heap = <<>>
  /\ server = 0
  /\ pc = [i \in Slots |-> "idle"]
  /\ request = [i \in Slots |-> NoRequest]
  /\ response = [i \in Slots |-> NoResponse]
  /\ cacheOp = [i \in Slots |-> "none"]
  /\ served = [i \in Slots |-> 0]
  /\ call = [i \in Slots |-> NoCall]
  /\ out = [i \in Slots |-> <<>>]
  /\ downstream = [i \in Slots |-> NoDownstream]
  /\ result = [i \in Slots |-> NoResult]

(* ---------- Worker entry ---------------------------------------------------- *)
ExtractTokenHeaderFirst(r) == Coalesce(r.header, r.query)

\* url.searchParams.get("token") ?? request.headers.get("X-Api-Token")
ExtractToken(r) == Coalesce(r.query, r.header)

UnauthorizedWhenAbsent(token) == token = None \/ token[1] = ""

\* !token || token !== env.HUB_TOKEN
Unauthorized(token) == token = None \/ token[1] = "" \/ token[1] # HUB_TOKEN

GateSecretFirst(r) ==
  IF Unauthorized(ExtractToken(r)) THEN "unauthorized"
  ELSE IF r.method = "OPTIONS" THEN "preflight"
  ELSE "pass"

\* The order of the two early returns of fetch().
Gate(r) ==
  IF r.method = "OPTIONS" THEN "preflight"
  ELSE IF Unauthorized(ExtractToken(r)) THEN "unauthorized"
  ELSE "pass"

EnsureServerAlways(srv, hp) ==
  [server |-> Len(hp) + 1, heap |-> Append(hp, buildServer), op |-> "built"]

\* env.__SERVER ??= buildServer(env)
EnsureServer(srv, hp) ==
  IF srv # 0 THEN [server |-> srv, heap |-> hp, op |-> "reused"]
  ELSE [server |-> Len(hp) + 1, heap |-> Append(hp, buildServer), op |-> "built"]

FetchEagerBuild(i, r) ==
  LET e == EnsureServer(server, heap)
  IN /\ pc[i] = "idle"
     /\ \A j \in Slots : j < i => pc[j] # "idle"
     /\ request' = [request EXCEPT ![i] = r]
     /\ heap' = e.heap
     /\ server' = e.server
     /\ cacheOp' = [cacheOp EXCEPT ![i] = e.op]
     /\ UNCHANGED <<call, out, downstream, result>>
     /\ CASE Gate(r) = "preflight" ->
               /\ response' = [response EXCEPT ![i] = Response(None, 204, CORS_HEADERS)]
               /\ pc' = [pc EXCEPT ![i] = "closed"]
               /\ UNCHANGED served
          [] Gate(r) = "unauthorized" ->
               /\ response' = [response EXCEPT ![i] =
                    json(<< <<"success", JBool(FALSE)>>,
                            <<"error", JStr("Unauthorized")>> >>, 401)]
               /\ pc' = [pc EXCEPT ![i] = "closed"]
               /\ UNCHANGED served
          [] Gate(r) = "pass" ->
               /\ served' = [served EXCEPT ![i] = e.server]
               /\ pc' = [pc EXCEPT ![i] = "delegated"]
               /\ UNCHANGED response

\* One invocation of fetch(): it holds no await, so it runs to its return.
\* Invocations are numbered in the order they start.
Fetch(i, r) ==
  /\ pc[i] = "idle"
  /\ \A j \in Slots : j < i => pc[j] # "idle"
  /\ request' = [request EXCEPT ![i] = r]
  /\ UNCHANGED <<call, out, downstream, result>>
  /\ CASE Gate(r) = "preflight" ->
            /\ response' = [response EXCEPT ![i] = Response(None, 204, CORS_HEADERS)]
            /\ pc' = [pc EXCEPT ![i] = "closed"]
            /\ UNCHANGED <<heap, server, cacheOp, served>>
       [] Gate(r) = "unauthorized" ->
            /\ response' = [response EXCEPT ![i] =
                 json(<< <<"success", JBool(FALSE)>>,
                         <<"error", JStr("Unauthorized")>> >>, 401)]
            /\ pc' = [pc EXCEPT ![i] = "closed"]
            /\ UNCHANGED <<heap, server, cacheOp, served>>
       [] Gate(r) = "pass" ->
            LET e == EnsureServer(server, heap)
            IN /\ heap' = e.heap
               /\ server' = e.server
               /\ cacheOp' = [cacheOp EXCEPT ![i] = e.op]
               /\ served' = [served EXCEPT ![i] = e.server]
               /\ pc' = [pc EXCEPT ![i] = "delegated"]
               /\ UNCHANGED response

(* ---------- env.__SERVER.handle ---------------------------------------------- *)
\* The transport answers a message that calls no tool (initialize, tools/list,
\* the opening of the event stream).
TransportOther(i) ==
  /\ pc[i] = "delegated"
  /\ pc' = [pc EXCEPT ![i] = "done"]
  /\ UNCHANGED <<heap, server, request, response, cacheOp, served, call, out,
                 downstream, result>>

\* A tools/call message: look the name up, parse the arguments with the
\* registered schema, and invoke the handler, which runs to its outbound fetch.
CallTool(i, c) ==
  /\ pc[i] = "delegated"
  /\ call' = [call EXCEPT ![i] = c]
  /\ UNCHANGED <<heap, server, request, response, cacheOp, served, downstream>>
  /\ LET tools == heap[served[i]].tools
     IN IF c.name \notin DOMAIN tools
        THEN /\ result' = [result EXCEPT ![i].state = "unknown"]
             /\ pc' = [pc EXCEPT ![i] = "done"]
             /\ UNCHANGED out
        ELSE LET p == SafeParse(tools[c.name].schema, c.args)
             IN IF ~p.success
                THEN /\ result' = [result EXCEPT ![i].state = "invalid"]
                     /\ pc' = [pc EXCEPT ![i] = "done"]
                     /\ UNCHANGED out
                ELSE /\ out' = [out EXCEPT ![i] =
                          Append(@, HandlerRequest(tools[c.name].handler, p.data))]
                     /\ pc' = [pc EXCEPT ![i] = "fetching"]
                     /\ UNCHANGED result

\* The downstream answers: the handler resumes with res and starts reading the
\* body (res.text() or res.json()).
DownstreamResponds(i, res) ==
  /\ pc[i] = "fetching"
  /\ downstream' = [downstream EXCEPT ![i] = res]
  /\ pc' = [pc EXCEPT ![i] = "reading"]
  /\ UNCHANGED <<heap, server, request, response, cacheOp, served, call, out,
                 result>>

\* The outbound fetch rejects: the handler's await throws the transport error.
NetworkFails(i, message) ==
  /\ pc[i] = "fetching"
  /\ result' = [result EXCEPT ![i] = Throw(message)]
  /\ pc' = [pc EXCEPT ![i] = "done"]
  /\ UNCHANGED <<heap, server, request, response, cacheOp, served, call, out,
                 downstream>>

BodyReadRetry(i) ==
  /\ pc[i] = "reading"
  /\ IF Ok(downstream[i])
     THEN /\ result' = [result EXCEPT ![i] =
               HandlerResult(heap[served[i]].tools[call[i].name].handler,
                             downstream[i])]
          /\ pc' = [pc EXCEPT ![i] = "done"]
          /\ UNCHANGED out
     ELSE /\ out' = [out EXCEPT ![i] = Append(@, @[1])]
          /\ pc' = [pc EXCEPT ![i] = "fetching"]
          /\ UNCHANGED result
  /\ UNCHANGED <<heap, server, request, response, cacheOp, served, call,
                 downstream>>

\* The body is read: the handler throws it (non-2xx) or returns its content.
BodyRead(i) ==
  /\ pc[i] = "reading"
  /\ result' = [result EXCEPT ![i] =
       HandlerResult(heap[served[i]].tools[call[i].name].handler, downstream[i])]
  /\ pc' = [pc EXCEPT ![i] = "done"]
  /\ UNCHANGED <<heap, server, request, response, cacheOp, served, call, out,
                 downstream>>

(* ---------- inputs ------------------------------------------------------------ *)
\* A string of n characters.
RECURSIVE Chars(_)
Chars(n) ==
  IF n = 0 THEN ""
  ELSE LET h == Chars(n \div 2)
       IN IF n % 2 = 1 THEN h \o h \o "x" ELSE h \o h

Requests ==
  [method : {"OPTIONS", "POST"},
   query  : {None, Some(""), Some(HUB_TOKEN), Some("wrong")},
   header : {None, Some(HUB_TOKEN), Some("wrong")}]

AllRequests ==
  [method : {"OPTIONS", "GET", "POST"},
   query  : {None, Some(""), Some(HUB_TOKEN), Some("wrong")},
   header : {None, Some(""), Some(HUB_TOKEN), Some("wrong")}]

Calls ==
  { [name |-> "generate_audio",
     args |-> [text |-> JStr("hello"), voiceId |-> JStr("v1")]],
    [name |-> "generate_image",
     args |-> [prompt |-> JStr("a cat"), steps |-> JInt(150)]] }

Replies ==
  { [status |-> 200, body |-> "{\"audioUrl\":\"https://x/a.mp3\"}"],
    [status |-> 500, body |-> "boom"] }

Errors == {"connection refused"}

\* Concurrent invocations in one isolate.
Next ==
  \E i \in Slots :
    \/ \E r \in Requests : Fetch(i, r)
    \/ TransportOther(i)
    \/ \E c \in Calls : CallTool(i, c)
    \/ \E res \in Replies : DownstreamResponds(i, res)
    \/ \E m \in Errors : NetworkFails(i, m)
    \/ BodyRead(i)

Spec == Init /\ [][Next]_vars

\* The argument objects with key k absent or bound to a value of S.
Opt(k, S) == {<<>>} \cup {k :> v : v \in S}

Both(A, B) == {a @@ b : a \in A, b \in B}

CallsOf(name, A) == {[name |-> name, args |-> a] : a \in A}

\* Tool calls around every limit of the three schemas.
AllCalls ==
  CallsOf("generate_audio",
          Both(Opt("text", {JStr(""), JStr("x"), JStr(Chars(5000)),
                            JStr(Chars(5001)), JInt(5)}),
               Both(Opt("voiceId", {JStr(""), JStr("v1"), JInt(7)}),
                    Opt("modelId", {JStr("eleven_multilingual_v2")}))))
  \cup
  CallsOf("generate_image",
          Both(Opt("prompt", {JStr(""), JStr("a cat"), JStr(Chars(800)),
                              JStr(Chars(801))}),
               Opt("steps", {JInt(0), JInt(1), JInt(30), JInt(100), JInt(101),
                             JInt(150), JNum(1, 5), JNum(100, 5), JStr("30")})))
  \cup
  CallsOf("translate_text",
          Both(Opt("text", {JStr(""), JStr("hello"), JStr(Chars(10000)),
                            JStr(Chars(10001))}),
               Opt("targetLang", {JStr(""), JStr("e"), JStr("en"), JStr("eng")})))
  \cup
  CallsOf("delete_everything", {<<>>})

AllReplies ==
  [status : {199, 200, 299, 300, 404, 500},
   body   : {"", "boom", "hola", "{\"audioUrl\":\"https://x/a.mp3\"}",
             "{\"url\":\"https://x/i.png\"}"}]

\* One invocation on a fresh isolate, over every input.
NextSingle ==
  \/ \E r \in AllRequests : Fetch(1, r)
  \/ TransportOther(1)
  \/ \E c \in AllCalls : CallTool(1, c)
  \/ \E res \in AllReplies : DownstreamResponds(1, res)
  \/ \E m \in Errors : NetworkFails(1, m)
  \/ BodyRead(1)

SpecSingle == Init /\ [][NextSingle]_vars

(* ---------- properties: the gate and the cache -------------------------------- *)
Handled(i) == pc[i] # "idle"

\* The tokens a request carries, wherever it carries them.
Carried(r) == {t[1] : t \in {r.query, r.header} \ {None}}

\* The credential of a request by the documented precedence: the query
\* parameter, else the header.
Credential(r) == IF r.query # None THEN r.query ELSE r.header

UnauthorizedBody == "{\"success\":false,\"error\":\"Unauthorized\"}"

ListedCorsHeaders ==
  { <<"Access-Control-Allow-Origin", "*">>,
    <<"Access-Control-Allow-Methods", "GET, POST, OPTIONS">>,
    <<"Access-Control-Allow-Headers", "Content-Type, X-Api-Token">>,
    <<"Access-Control-Max-Age", "86400">> }

\* C1: a non-OPTIONS request that carries no token, or whose presented token
\* (every token it carries, or the one that takes precedence) differs from the
\* hub secret, is answered 401 with the Unauthorized body, and no outbound
\* call is made on its behalf.
C1_UnauthorizedIs401 ==
  \A i \in Slots :
    (Handled(i) /\ request[i].method # "OPTIONS"
                /\ (\/ HUB_TOKEN \notin Carried(request[i])
                    \/ Credential(request[i]) # Some(HUB_TOKEN)))
      => /\ response[i].status = 401
         /\ response[i].body = Some(UnauthorizedBody)
         /\ pc[i] = "closed"
         /\ out[i] = <<>>

\* A request with a wrong token was refused while another invocation had an
\* outbound call in flight.
C1_Witness ==
  \E i, j \in Slots :
    /\ request[i].method = "POST" /\ request[i].query = Some("wrong")
    /\ request[i].header = None /\ response[i].status = 401
    /\ out[j] # <<>>

\* C2: the cache is built only if a request whose credential is the hub secret
\* was handled; a request answered 401 neither reads nor builds the cache and
\* is not delegated to handle().
C2_BuiltOnlyAfterAuth ==
  /\ server # 0 =>
       \E i \in Slots : /\ Handled(i) /\ request[i].method # "OPTIONS"
                        /\ Credential(request[i]) = Some(HUB_TOKEN)
                        /\ response[i].status # 401
  /\ \A i \in Slots :
       response[i].status = 401 =>
         cacheOp[i] = "none" /\ served[i] = 0 /\ pc[i] = "closed"

\* A request without the secret was refused after the cache had been built.
C2_Witness ==
  \E i, j \in Slots :
    /\ i < j /\ cacheOp[i] = "built" /\ server # 0
    /\ request[j].method = "POST" /\ request[j].header = Some("wrong")
    /\ response[j].status = 401

\* C3 as stated: every OPTIONS request is answered 204 with five CORS headers,
\* the four listed among them, whatever its token, and the cache is untouched.
C3_FiveCorsHeaders ==
  \A i \in Slots :
    (Handled(i) /\ request[i].method = "OPTIONS")
      => /\ response[i].status = 204
         /\ ListedCorsHeaders \subseteq response[i].headers
         /\ Cardinality(response[i].headers) = 5
         /\ cacheOp[i] = "none" /\ served[i] = 0

\* C3 amended: every OPTIONS request is answered 204 with exactly the four
\* listed CORS headers and no body, whatever its token; the secret check is
\* bypassed and the cache is untouched.
C3_PreflightIs204 ==
  \A i \in Slots :
    (Handled(i) /\ request[i].method = "OPTIONS")
      => /\ response[i].status = 204
         /\ response[i].headers = ListedCorsHeaders
         /\ Cardinality(response[i].headers) = 4
         /\ response[i].body = None
         /\ pc[i] = "closed"
         /\ cacheOp[i] = "none" /\ served[i] = 0

\* A preflight with a wrong token was answered 204 with the cache built.
C3_Witness ==
  \E i, j \in Slots :
    /\ i < j /\ cacheOp[i] = "built" /\ server # 0
    /\ request[j].method = "OPTIONS" /\ Carried(request[j]) = {"wrong"}
    /\ response[j].status = 204

\* C4: buildServer runs at most once; the first authenticated request builds
\* the instance and every later one is served by that same instance without
\* building another.
C4_BuiltAtMostOnce ==
  /\ Len(heap) <= 1
  /\ server = Len(heap)
  /\ \A i \in Slots : served[i] # 0 => served[i] = 1 /\ cacheOp[i] # "none"
  /\ \A i, j \in Slots :
       (i < j /\ served[i] # 0 /\ served[j] # 0) => cacheOp[j] = "reused"
  /\ \A i \in Slots :
       (cacheOp[i] = "reused") => \E j \in Slots : j < i /\ cacheOp[j] = "built"

\* Two authenticated requests were in flight together, the second on the
\* instance the first built.
C4_Witness ==
  \E i, j \in Slots :
    /\ i < j /\ cacheOp[i] = "built" /\ cacheOp[j] = "reused"
    /\ pc[i] = "fetching" /\ pc[j] = "fetching"
    /\ Len(heap) = 1

\* C5: every authenticated request is delegated to a registry, also when
\* another first request is still in flight, and the registries that serve
\* any two of them expose the same catalog: the three tools and their schemas.
C5_SameCatalog ==
  /\ \A i \in Slots :
       (Handled(i) /\ request[i].method # "OPTIONS"
                   /\ Credential(request[i]) = Some(HUB_TOKEN))
         => /\ served[i] \in 1..Len(heap)
            /\ pc[i] # "closed"
            /\ response[i].status # 401
            /\ DOMAIN heap[served[i]].tools =
                 {"generate_audio", "generate_image", "translate_text"}
  /\ \A i, j \in Slots :
       (served[i] # 0 /\ served[j] # 0)
         => heap[served[i]].tools = heap[served[j]].tools

\* The first two requests of the isolate are authenticated and both are still
\* with the transport.
C5_Witness ==
  /\ pc[1] = "delegated" /\ pc[2] = "delegated"
  /\ cacheOp[1] = "built"

\* C10: the query parameter shadows the header.  With a token query parameter
\* (the empty one included) the request passes exactly when that value is the
\* hub secret, whatever the header; the header decides only without it.
C10_QueryShadowsHeader ==
  \A i \in Slots :
    (Handled(i) /\ request[i].method # "OPTIONS")
      => IF request[i].query # None
         THEN (response[i].status = 401) <=> (request[i].query # Some(HUB_TOKEN))
         ELSE (response[i].status = 401) <=> (request[i].header # Some(HUB_TOKEN))

\* An empty query token with the right header was refused.
C10_Witness ==
  \E i \in Slots :
    /\ request[i].method = "POST" /\ request[i].query = Some("")
    /\ request[i].header = Some(HUB_TOKEN) /\ response[i].status = 401

(* ---------- properties: the tools ----------------------------------------------- *)
Has(a, k) == k \in DOMAIN a

\* A string argument whose length is outside lo..hi.
StringOutside(a, k, lo, hi) ==
  Has(a, k) /\ a[k].t = "string" /\ (Len(a[k].s) < lo \/ Len(a[k].s) > hi)

\* A number argument that is no integer of lo..hi.
NumberOutside(a, k, lo, hi) ==
  Has(a, k) /\ a[k].t = "number"
            /\ (a[k].d # 0 \/ a[k].n < lo \/ a[k].n > hi)

\* The violations of the three schemas, as the catalog documents them.
Violates(c) ==
  LET a == c.args
  IN CASE c.name = "generate_audio" ->
            \/ ~Has(a, "text") \/ ~Has(a, "voiceId")
            \/ StringOutside(a, "text", 1, 5000)
       [] c.name = "generate_image" ->
            \/ ~Has(a, "prompt")
            \/ StringOutside(a, "prompt", 1, 800)
            \/ NumberOutside(a, "steps", 1, 100)
       [] c.name = "translate_text" ->
            \/ ~Has(a, "text") \/ ~Has(a, "targetLang")
            \/ StringOutside(a, "text", 1, 10000)
            \/ StringOutside(a, "targetLang", 2, 2)
       [] OTHER -> FALSE

\* The handler of the call was invoked.
HandlerReached(i) ==
  pc[i] \in {"fetching", "reading"} \/ result[i].state \in {"returned", "thrown"}

\* C6: a call whose arguments violate the tool's schema fails, its handler is
\* not reached and no outbound call is made.
C6_InvalidNeverReachesHandler ==
  \A i \in Slots :
    (call[i] # NoCall /\ Violates(call[i]))
      => /\ pc[i] = "done"
         /\ result[i].state = "invalid"
         /\ ~HandlerReached(i)
         /\ out[i] = <<>>

\* generate_image with steps = 150 was rejected.
C6_Witness ==
  \E i \in Slots :
    /\ call[i] = [name |-> "generate_image",
                  args |-> [prompt |-> JStr("a cat"), steps |-> JInt(150)]]
    /\ result[i].state = "invalid" /\ out[i] = <<>>

\* C7: when the downstream answers a validated call with a non-2xx status, the
\* call fails with the downstream body as its message and without content.
C7_Non2xxThrowsBody ==
  \A i \in Slots :
    (pc[i] = "done" /\ downstream[i] # NoDownstream
                    /\ (downstream[i].status < 200 \/ downstream[i].status > 299))
      => /\ result[i].state = "thrown"
         /\ result[i].message = downstream[i].body
         /\ result[i].content = <<>>

\* generate_audio got HTTP 500 with body "boom" and failed with message "boom".
C7_Witness ==
  \E i \in Slots :
    /\ call[i].name = "generate_audio"
    /\ downstream[i] = [status |-> 500, body |-> "boom"]
    /\ result[i] = Throw("boom")

\* The argument the handler must forward: the supplied one, else the default.
OrElse(a, k, v) == IF Has(a, k) THEN a[k] ELSE v

\* C8: defaults are applied before the handler runs.  The body sent for
\* generate_audio carries modelId "eleven_turbo_v2" when modelId is omitted,
\* the body sent for generate_image carries steps 30 when steps is omitted,
\* and a supplied value is sent as it is.
C8_DefaultsApplied ==
  \A i \in Slots :
    out[i] # <<>> =>
      LET a == call[i].args
      IN /\ call[i].name = "generate_audio" =>
              out[i][1].body =
                JSONstringify(<< <<"text", a.text>>, <<"voiceId", a.voiceId>>,
                   <<"modelId", OrElse(a, "modelId", JStr("eleven_turbo_v2"))>> >>)
         /\ call[i].name = "generate_image" =>
              out[i][1].body =
                JSONstringify(<< <<"prompt", a.prompt>>,
                   <<"steps", OrElse(a, "steps", JInt(30))>> >>)

\* generate_audio was called without modelId and its request went out.
C8_Witness ==
  \E i \in Slots :
    /\ call[i] = [name |-> "generate_audio",
                  args |-> [text |-> JStr("x"), voiceId |-> JStr("v1")]]
    /\ out[i] # <<>>
    /\ out[i][1].body =
         "{\"text\":\"x\",\"voiceId\":\"v1\",\"modelId\":\"eleven_turbo_v2\"}"

\* The downstream binding each tool forwards to.
ServiceOf(name) ==
  CASE name = "generate_audio" -> "TTS_ENDPOINT"
    [] name = "generate_image" -> "IMAGE_ENDPOINT"
    [] name = "translate_text" -> "TRANSLATE_ENDPOINT"

\* C9: a call that passes validation issues exactly one outbound request, to
\* the endpoint of the tool that was named, and none is added when the answer
\* is a success, a non-2xx status or a network failure; any other invocation
\* issues none.
C9_ExactlyOneOutbound ==
  \A i \in Slots :
    IF HandlerReached(i)
    THEN /\ Len(out[i]) = 1
         /\ out[i][1].service = ServiceOf(call[i].name)
    ELSE out[i] = <<>>

\* A call ended on a non-2xx answer with its single request on record.
C9_Witness ==
  \E i \in Slots :
    /\ pc[i] = "done" /\ downstream[i].status = 500
    /\ result[i].state = "thrown" /\ Len(out[i]) = 1

====
